---- MODULE Spec2Model ----
(***************************************************************************)
(* Model of src/chapter4/todo.jsx: the TodoApp component (a task list kept *)
(* in React state and mirrored to localStorage under "todos.v1").          *)
(*                                                                         *)
(* React's contract is modelled explicitly: a handler runs against the     *)
(* values captured at the last render (todos, text, editingId, ...),       *)
(* a setState call only enqueues an update, Render applies the queued      *)
(* updates in order, and the useEffect of useLocalStorage runs after the   *)
(* render that changed the value.                                          *)
(*                                                                         *)
(* Strings are sequences of one-character strings, so that trim() and      *)
(* toLowerCase() are computed and not assumed.                             *)
(***************************************************************************)
EXTENDS Integers, Sequences, FiniteSets, TLC

VARIABLES
    phase,          \* "unmounted" | "mounted" | "crashed" (render threw)
    stored,         \* localStorage item "todos.v1": [kind, items]
    valueKind,      \* what useState holds: "array" | "null" | "number" | "object"
    todos,          \* the array held by useState, as captured by the last render
    queue,          \* setTodos updates enqueued and not yet rendered
    text,           \* useState("") of the add input, as rendered
    filter,         \* useState("all")
    search,         \* useState("")
    editingId,      \* useState(null); NoId stands for null
    editingText,    \* useState("")
    pending,        \* values given to setText/setFilter/... not yet rendered
    batching,       \* React leaves updates queued until a later Render
    effectPending,  \* the persistence effect is scheduled and has not run
    lastWriteOk,    \* the last run of the persistence effect stored its value
    failures,       \* number of setItem calls that threw (bounded)
    nextId,         \* uid(): the next fresh identifier
    now,            \* Date.now(): the latest clock reading taken
    lastOp,         \* history: the last call of a handler that edits the list,
                    \* forgotten once the persistence effect has run
    addCalls,       \* history: addTodo calls since mount whose text was not blank
    replaced,       \* history: the kind of the item that the last write replaced
    server,         \* the server that node runs: "server1" | "server2" | "none"
    reqs            \* the requests of the server: what the callback did for each

vars == <<phase, stored, valueKind, todos, queue, text, filter, search, editingId,
          editingText, pending, batching, effectPending, lastWriteOk, failures, nextId, now,
          lastOp, addCalls, replaced, server, reqs>>

\* the state of the page
pageVars == <<phase, stored, valueKind, todos, queue, text, filter, search, editingId,
              editingText, pending, batching, effectPending, lastWriteOk, failures,
              nextId, now, lastOp, addCalls, replaced>>
\* the state of the HTTP server
srvVars == <<server, reqs>>

(***************************************************************************)
(* Bounds of the model.                                                    *)
(***************************************************************************)
\* identifiers uid() hands out over the whole behaviour
MaxTodos == 2
\* setItem calls that may throw over the whole behaviour
MaxWriteFailures == 1
\* setTodos updates React may hold back before it renders
MaxQueue == 2

\* requests the server receives over the whole behaviour
MaxRequests == 3

\* editingId === null
NoId == 0

(***************************************************************************)
(* Strings.                                                                *)
(***************************************************************************)
IsSpace(c) == c = " "

RECURSIVE TrimStart(_)
TrimStart(s) ==
    IF s = <<>> THEN <<>>
    ELSE IF IsSpace(Head(s)) THEN TrimStart(Tail(s)) ELSE s

RECURSIVE TrimEnd(_)
TrimEnd(s) ==
    IF s = <<>> THEN <<>>
    ELSE IF IsSpace(s[Len(s)]) THEN TrimEnd(SubSeq(s, 1, Len(s) - 1)) ELSE s

\* the text is used as typed
NoTrim(s) == s

\* String.prototype.trim
Trim(s) == TrimEnd(TrimStart(s))

LowerChar(c) ==
    CASE c = "A" -> "a"
      [] c = "B" -> "b"
      [] OTHER -> c

\* a comparison that keeps the case of the letters
KeepCase(s) == s

\* String.prototype.toLowerCase
ToLowerCase(s) == [i \in DOMAIN s |-> LowerChar(s[i])]

\* String.prototype.includes
Includes(s, q) ==
    \E i \in 0..(Len(s) - Len(q)) : SubSeq(s, i + 1, i + Len(q)) = q

\* what the user types into the add input
TextInputs == { <<" ">>, <<" ", "a", " ">> }
\* what the user types into the edit input
EditInputs == { <<" ">>, <<" ", "a", " ", "B", " ">> }
\* what the user types into the search input
SearchInputs == { <<>>, <<" ", "b", " ">> }

FilterKeys == {"all", "active", "completed"}

(***************************************************************************)
(* localStorage item and JSON.                                             *)
(***************************************************************************)
Item(kind, items) == [kind |-> kind, items |-> items]

\* getItem returns null
Absent == Item("absent", <<>>)

\* JSON.stringify of one task: the four fields in order
StringifyTask(t) == <<t.id, t.text, t.done, t.createdAt>>

\* a persistence that writes the tasks still to do, not the full list
StringifyActive(list) ==
    LET act == SelectSeq(list, LAMBDA t : ~t.done)
    IN  Item("array", [i \in DOMAIN act |-> StringifyTask(act[i])])

\* JSON.stringify(value) for an array of tasks
Stringify(list) == Item("array", [i \in DOMAIN list |-> StringifyTask(list[i])])

\* a parse that does not read the done field
ParseTaskDropsDone(f) == [id |-> f[1], text |-> f[2], done |-> FALSE, createdAt |-> f[4]]

ParseTask(f) == [id |-> f[1], text |-> f[2], done |-> f[3], createdAt |-> f[4]]

\* the useState initializer of useLocalStorage: [kind, items] of the value it returns
Load(raw) ==
    CASE raw.kind = "absent"  -> [kind |-> "array", items |-> <<>>]   \* raw is null
      [] raw.kind = "empty"   -> [kind |-> "array", items |-> <<>>]   \* raw is ""
      [] raw.kind = "garbage" -> [kind |-> "array", items |-> <<>>]   \* parse throws
      [] raw.kind = "array"   ->
            [kind |-> "array", items |-> [i \in DOMAIN raw.items |-> ParseTask(raw.items[i])]]
      [] OTHER -> [kind |-> raw.kind, items |-> <<>>]  \* "null", "number", "object"

\* what the item may hold when the page is first opened
InitialItems ==
    { Absent, Item("empty", <<>>), Item("garbage", <<>>), Item("null", <<>>),
      Item("number", <<>>), Item("object", <<>>), Item("array", <<>>),
      Item("array", << <<1, <<"a">>, TRUE, 1>> >>) }

(***************************************************************************)
(* Derived values of the render.                                           *)
(***************************************************************************)
\* FILTERS whose active entry is a copy of the all entry
ActiveIsAll(key, t) ==
    CASE key = "all" -> TRUE
      [] key = "active" -> TRUE
      [] key = "completed" -> t.done

FilterFn(key, t) ==
    CASE key = "all" -> TRUE
      [] key = "active" -> ~t.done
      [] key = "completed" -> t.done

filtered(list, key, query) ==
    LET byFilter == SelectSeq(list, LAMBDA t : FilterFn(key, t))
        q == ToLowerCase(Trim(query))
    IN  IF q # <<>>
        THEN SelectSeq(byFilter, LAMBDA t : Includes(ToLowerCase(t.text), q))
        ELSE byFilter

stats(list) ==
    LET total == Len(list)
        completed == Len(SelectSeq(list, LAMBDA t : t.done))
    IN  [total |-> total, completed |-> completed, active |-> total - completed]

(***************************************************************************)
(* The updates handed to setTodos.                                         *)
(***************************************************************************)
\* Date.now() on line 77: every reading is later than the one before
Tick(t) == t + 1

\* a uid() that returns the same identifier at every call
NewTodoSameId(id, val, ts) == [id |-> 1, text |-> val, done |-> FALSE, createdAt |-> ts]

\* line 77: the task addTodo builds
NewTodo(id, val, ts) == [id |-> id, text |-> val, done |-> FALSE, createdAt |-> ts]

\* an addTodo that appends: [...todos, newTodo]
AddAtEnd(newTodo, list) == list \o <<newTodo>>

\* line 78: [newTodo, ...todos]
AddFn(newTodo, list) == <<newTodo>> \o list

\* a toggle that marks the task done: { ...t, done: true }
ToggleSetsDone(prev, id) ==
    [i \in DOMAIN prev |->
        IF prev[i].id = id THEN [prev[i] EXCEPT !.done = TRUE] ELSE prev[i]]

\* line 84
ToggleFn(prev, id) ==
    [i \in DOMAIN prev |->
        IF prev[i].id = id THEN [prev[i] EXCEPT !.done = ~prev[i].done] ELSE prev[i]]

\* a remove by splice(findIndex(...), 1): index -1 removes the last task
RemoveBySplice(prev, id) ==
    IF \E i \in DOMAIN prev : prev[i].id = id
    THEN SelectSeq(prev, LAMBDA t : t.id # id)
    ELSE SubSeq(prev, 1, Len(prev) - 1)

\* line 88
RemoveFn(prev, id) == SelectSeq(prev, LAMBDA t : t.id # id)

\* a clearCompleted with the test inverted: filter((t) => t.done)
ClearActive(prev) == SelectSeq(prev, LAMBDA t : t.done)

\* a clearCompleted that empties the list
ClearEverything(prev) == <<>>

\* line 92
ClearCompletedFn(prev) == SelectSeq(prev, LAMBDA t : ~t.done)

\* a saveEdit that stores the empty text
SaveEmptyText(prev, id) ==
    [i \in DOMAIN prev |->
        IF prev[i].id = id THEN [prev[i] EXCEPT !.text = <<>>] ELSE prev[i]]

\* line 105: saveEdit with empty text
SaveEditDeleteFn(prev, id) == SelectSeq(prev, LAMBDA t : t.id # id)

\* a saveEdit that rebuilds the task: { id: t.id, text: val, done: false, ... }
SaveEditResetsDone(prev, id, val) ==
    [i \in DOMAIN prev |->
        IF prev[i].id = id THEN [prev[i] EXCEPT !.text = val, !.done = FALSE]
        ELSE prev[i]]

\* line 107: saveEdit with text
SaveEditTextFn(prev, id, val) ==
    [i \in DOMAIN prev |->
        IF prev[i].id = id THEN [prev[i] EXCEPT !.text = val] ELSE prev[i]]

\* a toggleAll that flips each task: { ...t, done: !t.done }
ToggleAllFlips(prev, done) == [i \in DOMAIN prev |-> [prev[i] EXCEPT !.done = ~prev[i].done]]

\* line 119
ToggleAllFn(prev, done) == [i \in DOMAIN prev |-> [prev[i] EXCEPT !.done = done]]

\* an update in React's queue: a value (addTodo) or an updater function
Upd(op, id, val, done, list) ==
    [op |-> op, id |-> id, text |-> val, done |-> done, list |-> list]

\* a handler call, as recorded in lastOp
Call(op, id, val, done, noop) ==
    [op |-> op, id |-> id, text |-> val, done |-> done, noop |-> noop]

NoCall == Call("none", NoId, <<>>, FALSE, TRUE)

\* React applies one queued update to the state before it
Apply(u, prev) ==
    CASE u.op = "addTodo"        -> u.list
      [] u.op = "toggle"         -> ToggleFn(prev, u.id)
      [] u.op = "remove"         -> RemoveFn(prev, u.id)
      [] u.op = "clearCompleted" -> ClearCompletedFn(prev)
      [] u.op = "saveEdit"       ->
            IF u.text = <<>> THEN SaveEditDeleteFn(prev, u.id)
            ELSE SaveEditTextFn(prev, u.id, u.text)
      [] u.op = "toggleAll"      -> ToggleAllFn(prev, u.done)

RECURSIVE ApplyAll(_, _)
ApplyAll(q, state) ==
    IF q = <<>> THEN state ELSE ApplyAll(Tail(q), Apply(Head(q), state))

(***************************************************************************)
(* State.                                                                  *)
(***************************************************************************)
\* the rendered values of the plain useState hooks
Rendered ==
    [text |-> text, filter |-> filter, search |-> search,
     editingId |-> editingId, editingText |-> editingText]

FreshHooks ==
    [text |-> <<>>, filter |-> "all", search |-> <<>>,
     editingId |-> NoId, editingText |-> <<>>]

\* no update waits for a render
Idle == queue = <<>> /\ pending = Rendered

\* identifiers a call may name: those handed out so far and the next one
CallIds == 1..nextId

\* the requests of the server, and one that has not arrived
Requests == 1..MaxRequests

NoRequest ==
    [pc |-> "none", path |-> "", read |-> "none", heads |-> 0, status |-> 0,
     ctype |-> "", body |-> <<>>, ends |-> 0]

PageInit(b) ==
    /\ phase = "unmounted"
    /\ stored \in InitialItems
    /\ valueKind = "array"
    /\ todos = <<>>
    /\ queue = <<>>
    /\ text = <<>>
    /\ filter = "all"
    /\ search = <<>>
    /\ editingId = NoId
    /\ editingText = <<>>
    /\ pending = FreshHooks
    /\ batching = b
    /\ effectPending = FALSE
    /\ lastWriteOk = FALSE
    /\ failures = 0
    /\ nextId = Len(stored.items) + 1
    /\ now = 1
    /\ lastOp = NoCall
    /\ addCalls = 0
    /\ replaced = "none"

\* the page is opened in the browser; no server of src/chapter4 is looked at
InitWith(b) ==
    /\ PageInit(b)
    /\ server = "none"
    /\ reqs = [r \in Requests |-> NoRequest]

\* the page is opened; React flushes each event's updates before the next event
Init == InitWith(FALSE)

hookVars == <<text, filter, search, editingId, editingText>>
storeVars == <<stored, lastWriteOk, failures>>
histVars == <<lastOp, addCalls>>

\* a hook whose effect skips the first render
MountWithoutWrite ==
    /\ phase = "unmounted"
    /\ LET v == Load(stored) IN
        /\ valueKind' = v.kind
        /\ todos' = v.items
        /\ phase' = IF v.kind = "array" THEN "mounted" ELSE "crashed"
        /\ effectPending' = FALSE
    /\ UNCHANGED <<queue, hookVars, pending, batching, storeVars, nextId, now,
                   lastOp, addCalls, replaced, srvVars>>

\* lines 12-19 and the first render of TodoApp (line 62 throws on a non-array)
Mount ==
    /\ phase = "unmounted"
    /\ LET v == Load(stored) IN
        /\ valueKind' = v.kind
        /\ todos' = v.items
        /\ phase' = IF v.kind = "array" THEN "mounted" ELSE "crashed"
        /\ effectPending' = (v.kind = "array")
    /\ UNCHANGED <<queue, hookVars, pending, batching, storeVars, nextId, now,
                   lastOp, addCalls, replaced, srvVars>>

\* lines 20-24: the effect of useLocalStorage runs and setItem returns
PersistOk ==
    /\ phase = "mounted"
    /\ effectPending
    /\ effectPending' = FALSE
    /\ stored' = Stringify(todos)
    /\ replaced' = stored.kind
    /\ lastWriteOk' = TRUE
    /\ lastOp' = NoCall
    /\ UNCHANGED <<phase, valueKind, todos, queue, hookVars, pending, batching,
                   failures, nextId, now, addCalls, srvVars>>

\* an effect without the try of line 21: the throw of setItem leaves the effect
\* and React unmounts the page
PersistFailCrashes ==
    /\ phase = "mounted"
    /\ effectPending
    /\ failures < MaxWriteFailures
    /\ phase' = "crashed"
    /\ effectPending' = FALSE
    /\ failures' = failures + 1
    /\ lastWriteOk' = FALSE
    /\ lastOp' = NoCall
    /\ UNCHANGED <<valueKind, todos, queue, hookVars, pending, batching,
                   stored, nextId, now, addCalls, replaced, srvVars>>

\* lines 20-24: the effect runs and setItem throws, which line 23 catches
PersistFail ==
    /\ phase = "mounted"
    /\ effectPending
    /\ failures < MaxWriteFailures
    /\ effectPending' = FALSE
    /\ failures' = failures + 1
    /\ lastWriteOk' = FALSE
    /\ lastOp' = NoCall
    /\ UNCHANGED <<phase, valueKind, todos, queue, hookVars, pending, batching,
                   stored, nextId, now, addCalls, replaced, srvVars>>

\* React renders: the queued updates are applied in order to the state, the
\* hooks take the last value set, and the effect is scheduled when todos changed
RenderOf(q, hooks) ==
    /\ todos' = ApplyAll(q, todos)
    /\ effectPending' = (effectPending \/ q # <<>>)
    /\ queue' = <<>>
    /\ pending' = hooks
    /\ text' = hooks.text
    /\ filter' = hooks.filter
    /\ search' = hooks.search
    /\ editingId' = hooks.editingId
    /\ editingText' = hooks.editingText

\* a render that React deferred
Render ==
    /\ phase = "mounted"
    /\ ~effectPending
    /\ ~Idle
    /\ RenderOf(queue, pending)
    /\ UNCHANGED <<phase, valueKind, batching, storeVars, nextId, now, histVars,
                   replaced, srvVars>>

\* the setState calls of one handler: setTodos for each update of us, and the
\* plain hooks set to hooks; rendered at once unless React is batching
SetState(us, hooks) ==
    IF batching
    THEN /\ queue' = queue \o us
         /\ pending' = hooks
         /\ UNCHANGED <<todos, hookVars, effectPending>>
    ELSE RenderOf(queue \o us, hooks)

\* history: the handler call c becomes the last call
Record(c) == lastOp' = c

\* line 141
SetText(v) ==
    /\ SetState(<<>>, [pending EXCEPT !.text = v])
    /\ UNCHANGED <<histVars, nextId, now>>

\* line 163
SetFilter(k) ==
    /\ SetState(<<>>, [pending EXCEPT !.filter = k])
    /\ UNCHANGED <<histVars, nextId, now>>

\* line 175
SetSearch(v) ==
    /\ SetState(<<>>, [pending EXCEPT !.search = v])
    /\ UNCHANGED <<histVars, nextId, now>>

\* line 230: the edit input exists only while a task is being edited (line 226)
SetEditingText(v) ==
    /\ editingId # NoId
    /\ SetState(<<>>, [pending EXCEPT !.editingText = v])
    /\ UNCHANGED <<histVars, nextId, now>>

\* lines 74-81
addTodo ==
    LET val == Trim(text) IN
    IF val = <<>>
    THEN /\ Record(Call("addTodo", NoId, <<>>, FALSE, TRUE))
         /\ UNCHANGED <<todos, queue, hookVars, pending, effectPending,
                        addCalls, nextId, now>>
    ELSE /\ nextId <= MaxTodos
         /\ now' = Tick(now)
         /\ SetState(<<Upd("addTodo", nextId, val, FALSE,
                           AddFn(NewTodo(nextId, val, now'), todos))>>,
                     [pending EXCEPT !.text = <<>>])
         /\ Record(Call("addTodo", nextId, val, FALSE, FALSE))
         /\ nextId' = nextId + 1
         /\ addCalls' = addCalls + 1

\* lines 83-85
toggle(id) ==
    /\ SetState(<<Upd("toggle", id, <<>>, FALSE, <<>>)>>, pending)
    /\ Record(Call("toggle", id, <<>>, FALSE, FALSE))
    /\ UNCHANGED <<addCalls, nextId, now>>

\* lines 87-89
remove(id) ==
    /\ SetState(<<Upd("remove", id, <<>>, FALSE, <<>>)>>, pending)
    /\ Record(Call("remove", id, <<>>, FALSE, FALSE))
    /\ UNCHANGED <<addCalls, nextId, now>>

\* lines 91-93
clearCompleted ==
    /\ SetState(<<Upd("clearCompleted", NoId, <<>>, FALSE, <<>>)>>, pending)
    /\ Record(Call("clearCompleted", NoId, <<>>, FALSE, FALSE))
    /\ UNCHANGED <<addCalls, nextId, now>>

\* lines 95-98
startEdit(todo) ==
    /\ SetState(<<>>, [pending EXCEPT !.editingId = todo.id, !.editingText = todo.text])
    /\ UNCHANGED <<histVars, nextId, now>>

\* lines 100-111
saveEdit ==
    LET val == Trim(editingText) IN
    IF editingId = NoId
    THEN /\ Record(Call("saveEdit", NoId, val, FALSE, TRUE))
         /\ UNCHANGED <<todos, queue, hookVars, pending, effectPending,
                        addCalls, nextId, now>>
    ELSE /\ SetState(<<Upd("saveEdit", editingId, val, FALSE, <<>>)>>,
                     [pending EXCEPT !.editingId = NoId, !.editingText = <<>>])
         /\ Record(Call("saveEdit", editingId, val, FALSE, FALSE))
         /\ UNCHANGED <<addCalls, nextId, now>>

\* a cancelEdit without the setEditingText("") of line 115
CancelKeepsText ==
    /\ SetState(<<>>, [pending EXCEPT !.editingId = NoId])
    /\ UNCHANGED <<histVars, nextId, now>>

\* lines 113-116
cancelEdit ==
    /\ SetState(<<>>, [pending EXCEPT !.editingId = NoId, !.editingText = <<>>])
    /\ UNCHANGED <<histVars, nextId, now>>

\* lines 118-120
toggleAll(done) ==
    /\ SetState(<<Upd("toggleAll", NoId, <<>>, done, <<>>)>>, pending)
    /\ Record(Call("toggleAll", NoId, <<>>, done, FALSE))
    /\ UNCHANGED <<addCalls, nextId, now>>

\* React calls a handler: the page is mounted and the effect of the render
\* before has run
Handling ==
    /\ phase = "mounted"
    /\ ~effectPending
    /\ Len(queue) < MaxQueue
    /\ UNCHANGED <<phase, valueKind, batching, storeVars, replaced, srvVars>>

\* an event of the add input or the Add button
AddEvent ==
    /\ Handling
    /\ \/ \E v \in TextInputs : SetText(v)
       \/ addTodo

\* an event of a task row or of the buttons that act on every task
ListEvent ==
    /\ Handling
    /\ \/ \E v \in EditInputs : SetEditingText(v)
       \/ \E id \in CallIds : toggle(id)
       \/ \E id \in CallIds : remove(id)
       \/ clearCompleted
       \/ \E i \in DOMAIN todos : startEdit(todos[i])
       \/ saveEdit
       \/ cancelEdit
       \/ \E done \in BOOLEAN : toggleAll(done)

\* an event of the filter buttons or the search input
ViewEvent ==
    /\ Handling
    /\ \/ \E k \in FilterKeys : SetFilter(k)
       \/ \E v \in SearchInputs : SetSearch(v)

\* every handler of the page, with a store that accepts every write
Next ==
    \/ Mount
    \/ AddEvent
    \/ ListEvent
    \/ ViewEvent
    \/ PersistOk

Spec == Init /\ [][Next]_vars

\* the handlers that edit the list, with a store whose writes may fail
NextFail ==
    \/ Mount
    \/ AddEvent
    \/ ListEvent
    \/ PersistOk
    \/ PersistFail

SpecFail == Init /\ [][NextFail]_vars

\* the handlers that edit the list, when React holds the updates of several
\* calls back and renders them together
InitBatched == InitWith(TRUE)

NextBatched ==
    \/ Mount
    \/ AddEvent
    \/ ListEvent
    \/ Render
    \/ PersistOk

SpecBatched == InitBatched /\ [][NextBatched]_vars

\* the page is reloaded: the component state is built anew (lines 12-19, 50-54)
\* from the item, once the effect of the last render has run
Reload ==
    /\ phase = "mounted"
    /\ ~effectPending
    /\ LET v == Load(stored) IN
        /\ valueKind' = v.kind
        /\ todos' = v.items
        /\ phase' = IF v.kind = "array" THEN "mounted" ELSE "crashed"
        /\ effectPending' = (v.kind = "array")
    /\ queue' = <<>>
    /\ pending' = FreshHooks
    /\ text' = FreshHooks.text
    /\ filter' = FreshHooks.filter
    /\ search' = FreshHooks.search
    /\ editingId' = FreshHooks.editingId
    /\ editingText' = FreshHooks.editingText
    /\ lastWriteOk' = FALSE
    /\ lastOp' = Call("reload", NoId, <<>>, FALSE, FALSE)
    /\ addCalls' = 0
    /\ UNCHANGED <<batching, stored, failures, nextId, now, replaced, srvVars>>

\* the handlers that edit the list, and reloads of the page
NextReload ==
    \/ Mount
    \/ AddEvent
    \/ ListEvent
    \/ PersistOk
    \/ Reload

SpecReload == Init /\ [][NextReload]_vars

\* the page starts with an empty list and no handler but addTodo edits it
InitAdd == Init /\ Load(stored) = [kind |-> "array", items |-> <<>>]

NextAdd ==
    \/ Mount
    \/ AddEvent
    \/ ViewEvent
    \/ PersistOk
    \/ PersistFail

SpecAdd == InitAdd /\ [][NextAdd]_vars

(***************************************************************************)
(* src/chapter4/server1.js and server2.js: the callback of createServer.   *)
(* A request is answered by writeHead (heads, status, ctype), write and    *)
(* end (body, ends).                                                       *)
(***************************************************************************)
Servers == {"server1", "server2"}
Paths == {"/", "/about"}

\* server1.js lines 5-6: the two chunks of the body
HelloBody == <<"<h1>Hello Node!</h1>", "<p>Hello server!</p>">>
\* server2.js line 6: the content of the file; line 12: err.message
FileData == "content of the html file"
ErrMessage == "ENOENT: no such file or directory"

InitServer ==
    /\ PageInit(FALSE)
    /\ stored = Absent
    /\ server \in Servers
    /\ reqs = [r \in Requests |-> NoRequest]

\* server1.js lines 3-7: the whole callback; server2.js lines 4-6: the callback
\* up to the await of readFile
Request(r, path) ==
    /\ server \in Servers
    /\ reqs[r].pc = "none"
    /\ reqs' = [reqs EXCEPT ![r] =
          IF server = "server1"
          THEN [pc |-> "done", path |-> path, read |-> "none", heads |-> 1,
                status |-> 200, ctype |-> "text/html", body |-> HelloBody, ends |-> 1]
          ELSE [@ EXCEPT !.pc = "reading", !.path = path]]
    /\ UNCHANGED <<pageVars, server>>

\* server2.js lines 6-8: readFile resolves
ReadFileOk(r) ==
    /\ reqs[r].pc = "reading"
    /\ reqs' = [reqs EXCEPT ![r] =
          [@ EXCEPT !.pc = "done", !.read = "ok", !.heads = @ + 1, !.status = 200,
                    !.ctype = "text/html", !.body = Append(@, FileData),
                    !.ends = @ + 1]]
    /\ UNCHANGED <<pageVars, server>>

\* a catch that logs the error and sends nothing
ReadFileFailSilent(r) ==
    /\ reqs[r].pc = "reading"
    /\ reqs' = [reqs EXCEPT ![r] = [@ EXCEPT !.pc = "done", !.read = "failed"]]
    /\ UNCHANGED <<pageVars, server>>

\* server2.js lines 6, 9-13: readFile rejects and the catch answers
ReadFileFail(r) ==
    /\ reqs[r].pc = "reading"
    /\ reqs' = [reqs EXCEPT ![r] =
          [@ EXCEPT !.pc = "done", !.read = "failed", !.heads = @ + 1, !.status = 500,
                    !.ctype = "text/plain", !.body = Append(@, ErrMessage),
                    !.ends = @ + 1]]
    /\ UNCHANGED <<pageVars, server>>

\* a request arrives
Arrive == \E r \in Requests, path \in Paths : Request(r, path)
\* the promise of readFile settles
ReadOk == \E r \in Requests : ReadFileOk(r)
ReadFail == \E r \in Requests : ReadFileFail(r)

NextServer ==
    \/ Arrive
    \/ ReadOk
    \/ ReadFail

\* the promise of fs.promises.readFile always settles, and Node then runs the
\* rest of the callback
SpecServer ==
    /\ InitServer
    /\ [][NextServer]_vars
    /\ \A r \in Requests : WF_vars(ReadFileOk(r) \/ ReadFileFail(r))

(***************************************************************************)
(* Vocabulary of the properties.                                           *)
(***************************************************************************)
\* s is empty or holds only white space
Blank(s) == \A i \in DOMAIN s : s[i] = " "

\* t is raw without the white space at its two ends
IsTrimOf(t, raw) ==
    /\ t # <<>> => (t[1] # " " /\ t[Len(t)] # " ")
    /\ \E a \in 0..Len(raw) :
         /\ a + Len(t) <= Len(raw)
         /\ SubSeq(raw, a + 1, a + Len(t)) = t
         /\ Blank(SubSeq(raw, 1, a))
         /\ Blank(SubSeq(raw, a + Len(t) + 1, Len(raw)))

IdsOf(list) == { list[i].id : i \in DOMAIN list }

\* this step is a call of the handler op
CallStep(op) == lastOp' # lastOp /\ lastOp'.op = op

\* the handler op was called, ran its setTodos, and its render is the last one
Acted(op) == lastOp.op = op /\ ~lastOp.noop /\ phase = "mounted"

\* no effect has run since the page was opened
Starting == phase # "unmounted" /\ ~lastWriteOk /\ failures = 0

(***************************************************************************)
(* C1. Once the persistence effect of the last change of the list has run  *)
(* and its write succeeded, the item "todos.v1" is the serialization of    *)
(* the full current list: the same tasks with the same fields, in the same *)
(* order, and nothing of what was stored before.                           *)
(***************************************************************************)
C1_StoredIsCurrentList ==
    (phase = "mounted" /\ ~effectPending /\ lastWriteOk) =>
        /\ stored.kind = "array"
        /\ Len(stored.items) = Len(todos)
        /\ \A i \in DOMAIN todos :
             stored.items[i] =
                <<todos[i].id, todos[i].text, todos[i].done, todos[i].createdAt>>

\* two tasks, one of them done, have been persisted after an earlier write failed
C1_Witness ==
    /\ phase = "mounted" /\ ~effectPending /\ lastWriteOk
    /\ failures = 1
    /\ Len(todos) = 2
    /\ \E i \in DOMAIN todos : todos[i].done

(***************************************************************************)
(* C2. When the item is absent or holds anything but the JSON text of an   *)
(* array of tasks, the page starts with the empty list and does not fail.  *)
(* The code falls back to the empty list only when the item is absent or   *)
(* empty or JSON.parse throws: "null", a number or an object parse well,   *)
(* become the value of todos, and the first render throws on todos.filter. *)
(***************************************************************************)
C2_BadItemLoadsEmpty ==
    (Starting /\ stored.kind # "array") =>
        (phase = "mounted" /\ valueKind = "array" /\ todos = <<>>)

(***************************************************************************)
(* C3. A task of the list is in the list after every step (same id),       *)
(* unless the step is remove of its id, clearCompleted while it is done,   *)
(* or saveEdit of it with a text that is blank.                            *)
(***************************************************************************)
C3_Removes(t) ==
    \/ CallStep("remove") /\ lastOp'.id = t.id
    \/ CallStep("clearCompleted") /\ t.done
    \/ CallStep("saveEdit") /\ editingId = t.id /\ Blank(editingText)

C3_TasksStay ==
    [][ (phase = "mounted" /\ phase' = "mounted") =>
          \A i \in DOMAIN todos :
             (todos[i].id \notin IdsOf(todos')) => C3_Removes(todos[i]) ]_vars

\* a task was deleted by an edit to blank text while the other task stayed,
\* with the view filtered and searched
C3_Witness ==
    /\ Acted("saveEdit") /\ lastOp.text = <<>>
    /\ lastOp.id \notin IdsOf(todos)
    /\ Len(todos) = 1
    /\ filter = "completed" /\ search # <<>>

(***************************************************************************)
(* C4. Starting from the empty list and with addTodo the only handler that *)
(* edits it: the length of the list is the number of addTodo calls whose   *)
(* text was not blank, a call with blank text changes nothing, each new    *)
(* task is not done and carries the trimmed text, and the list is ordered  *)
(* newest first.                                                           *)
(***************************************************************************)
C4_NewestFirst ==
    phase = "mounted" =>
        /\ Len(todos) = addCalls
        /\ \A i \in DOMAIN todos :
             ~todos[i].done /\ \E raw \in TextInputs : IsTrimOf(todos[i].text, raw)
        /\ \A i, j \in DOMAIN todos :
             i < j => (todos[i].id > todos[j].id /\ todos[i].createdAt > todos[j].createdAt)

C4_AddStep ==
    CallStep("addTodo") =>
        IF Blank(text)
        THEN /\ lastOp'.noop
             /\ UNCHANGED <<todos, stored, effectPending, addCalls, nextId, text>>
        ELSE /\ ~lastOp'.noop
             /\ addCalls' = addCalls + 1
             /\ Len(todos') = Len(todos) + 1
             /\ Tail(todos') = todos
             /\ todos'[1].id \notin IdsOf(todos)
             /\ ~todos'[1].done
             /\ IsTrimOf(todos'[1].text, text)
             /\ todos'[1].text # <<>>

C4_AddSequence == []C4_NewestFirst /\ [][C4_AddStep]_vars

\* two tasks were added, and then addTodo was called with blank text
C4_Witness ==
    /\ phase = "mounted"
    /\ Len(todos) = 2
    /\ lastOp.op = "addTodo" /\ lastOp.noop
    /\ text = <<" ">>

(***************************************************************************)
(* C5. saveEdit with a text that is not blank replaces the text of the     *)
(* task being edited by the trimmed text and nothing else: its id, done    *)
(* and createdAt, the other tasks, the length and the order stay; when no  *)
(* task has the id, the list stays as it was.                              *)
(***************************************************************************)
C5_EditKeepsRest ==
    [][ (CallStep("saveEdit") /\ editingId # NoId /\ ~Blank(editingText)) =>
          /\ Len(todos') = Len(todos)
          /\ \A i \in DOMAIN todos :
               IF todos[i].id = editingId
               THEN /\ todos'[i].id = todos[i].id
                    /\ todos'[i].done = todos[i].done
                    /\ todos'[i].createdAt = todos[i].createdAt
                    /\ IsTrimOf(todos'[i].text, editingText)
               ELSE todos'[i] = todos[i] ]_vars

\* a done task was given a new text, and another task is in the list
C5_Witness ==
    /\ Acted("saveEdit") /\ lastOp.text = <<"a", " ", "B">>
    /\ Len(todos) = 2
    /\ \E i \in DOMAIN todos :
         todos[i].id = lastOp.id /\ todos[i].text = lastOp.text /\ todos[i].done

(***************************************************************************)
(* C6. saveEdit with a blank text leaves the list that remove leaves for   *)
(* the same id and the same list.                                          *)
(***************************************************************************)
C6_EditBlankIsRemove ==
    [][ (CallStep("saveEdit") /\ editingId # NoId /\ Blank(editingText)) =>
          todos' = RemoveFn(todos, editingId) ]_vars

\* a task was edited to white space, and the list holds the other task
C6_Witness ==
    /\ Acted("saveEdit") /\ lastOp.text = <<>>
    /\ lastOp.id \in 1..(nextId - 1)
    /\ lastOp.id \notin IdsOf(todos)
    /\ todos # <<>>

(***************************************************************************)
(* C7. toggle is its own inverse: toggle(id) negates done of the task with *)
(* the id and changes nothing else, and the updater of a second toggle(id) *)
(* gives back the whole list as it was before the first.                   *)
(***************************************************************************)
C7_ToggleTwice ==
    [][ CallStep("toggle") =>
          /\ Len(todos') = Len(todos)
          /\ \A i \in DOMAIN todos :
               todos'[i] =
                  [id |-> todos[i].id, text |-> todos[i].text,
                   done |-> IF todos[i].id = lastOp'.id THEN ~todos[i].done
                            ELSE todos[i].done,
                   createdAt |-> todos[i].createdAt]
          /\ ToggleFn(todos', lastOp'.id) = todos ]_vars

\* toggle was called on a done task of a list of two: the item, written before
\* the call, holds it done, and now it is not done
C7_Witness ==
    /\ Acted("toggle") /\ effectPending
    /\ lastWriteOk /\ Len(stored.items) = 2
    /\ Len(todos) = 2
    /\ \E i \in DOMAIN todos :
         todos[i].id = lastOp.id /\ ~todos[i].done /\ stored.items[i][3]

(***************************************************************************)
(* C8. toggle, remove and saveEdit with an id that no task has leave the   *)
(* list as it was and the page running; after remove(id) no task has the   *)
(* id, so that a second remove(id) changes nothing.                        *)
(***************************************************************************)
C8_AbsentIdNoOp ==
    [][ /\ \A op \in {"toggle", "remove", "saveEdit"} :
             (CallStep(op) /\ ~lastOp'.noop /\ lastOp'.id \notin IdsOf(todos)) =>
                 (todos' = todos /\ phase' = "mounted")
        /\ CallStep("remove") => lastOp'.id \notin IdsOf(todos') ]_vars

\* remove was called with the id of a task removed before: the item, written
\* before the call, already is the list that the call left, and it holds the
\* other task
C8_Witness ==
    /\ Acted("remove") /\ effectPending
    /\ lastOp.id \in 1..(nextId - 1)
    /\ lastOp.id \notin IdsOf(todos)
    /\ lastWriteOk /\ stored = Stringify(todos)
    /\ Len(todos) = 1
    /\ nextId = 3

(***************************************************************************)
(* C9. clearCompleted removes exactly the done tasks: right after it       *)
(* stats().completed is 0 and the list is the tasks that were not done,    *)
(* as they were and in their order.                                        *)
(***************************************************************************)
RECURSIVE C9_NotDone(_)
C9_NotDone(list) ==
    IF list = <<>> THEN <<>>
    ELSE IF Head(list).done THEN C9_NotDone(Tail(list))
         ELSE <<Head(list)>> \o C9_NotDone(Tail(list))

C9_ClearCompleted ==
    [][ CallStep("clearCompleted") =>
          /\ stats(todos').completed = 0
          /\ todos' = C9_NotDone(todos) ]_vars

\* clearCompleted ran and one of the two tasks is left
C9_Witness ==
    /\ Acted("clearCompleted")
    /\ nextId = 3
    /\ Len(todos) = 1

(***************************************************************************)
(* C10. toggleAll(d) sets done to d on every task, whatever it was, and    *)
(* keeps id, text, createdAt and the order: after toggleAll(true)          *)
(* stats().active is 0, after toggleAll(false) stats().completed is 0.     *)
(***************************************************************************)
C10_ToggleAll ==
    [][ CallStep("toggleAll") =>
          /\ Len(todos') = Len(todos)
          /\ \A i \in DOMAIN todos :
               todos'[i] = [id |-> todos[i].id, text |-> todos[i].text,
                            done |-> lastOp'.done, createdAt |-> todos[i].createdAt]
          /\ lastOp'.done => stats(todos').active = 0
          /\ ~lastOp'.done => stats(todos').completed = 0 ]_vars

\* toggleAll(true) ran on a list of two
C10_Witness ==
    /\ Acted("toggleAll") /\ lastOp.done
    /\ Len(todos) = 2

(***************************************************************************)
(* C11. In every list the page reaches, the ids of the view of filter      *)
(* "active" with no query and the ids of the view of filter "completed"    *)
(* with no query are disjoint, and together they are the ids of the list.  *)
(***************************************************************************)
C11_FilterPartition ==
    phase = "mounted" =>
        LET act == IdsOf(filtered(todos, "active", <<>>))
            com == IdsOf(filtered(todos, "completed", <<>>))
        IN  /\ act \cap com = {}
            /\ act \cup com = IdsOf(todos)

\* the list holds a task that is done and a task that is not
C11_Witness ==
    /\ phase = "mounted"
    /\ Len(todos) = 2
    /\ \E i, j \in DOMAIN todos : todos[i].done /\ ~todos[j].done

(***************************************************************************)
(* C12. The view is exactly the tasks of the list that pass the filter and *)
(* whose text holds the trimmed query as a substring, letters compared     *)
(* without their case (an empty query matches every task), in the order of *)
(* the list; a change of the filter or of the query changes neither the    *)
(* list nor the item.                                                      *)
(***************************************************************************)
C12_SameLetter(a, b) ==
    \/ a = b
    \/ {a, b} = {"a", "A"}
    \/ {a, b} = {"b", "B"}

\* raw without the white space at its two ends
C12_Core(raw) ==
    CHOOSE t \in { SubSeq(raw, a, b) : a \in 1..(Len(raw) + 1), b \in 0..Len(raw) } :
        IsTrimOf(t, raw)

C12_Matches(t, key, query) ==
    LET q == C12_Core(query) IN
    /\ \/ key = "all"
       \/ key = "active" /\ ~t.done
       \/ key = "completed" /\ t.done
    /\ \E off \in 0..Len(t.text) :
         /\ off + Len(q) <= Len(t.text)
         /\ \A k \in 1..Len(q) : C12_SameLetter(t.text[off + k], q[k])

C12_IsView(v, list, key, query) ==
    LET idx == { i \in DOMAIN list : C12_Matches(list[i], key, query) } IN
    /\ Len(v) = Cardinality(idx)
    /\ \A k \in DOMAIN v :
         \E i \in idx : v[k] = list[i] /\ Cardinality({ j \in idx : j < i }) = k - 1

C12_ViewIsFilterAndSearch ==
    phase = "mounted" => C12_IsView(filtered(todos, filter, search), todos, filter, search)

C12_ViewChangeKeepsList ==
    (filter' # filter \/ search' # search) => UNCHANGED <<todos, stored, effectPending>>

C12_FilteredView == []C12_ViewIsFilterAndSearch /\ [][C12_ViewChangeKeepsList]_vars

\* of two tasks the view shows the one that is done, whose text holds the
\* query in the other case
C12_Witness ==
    /\ phase = "mounted"
    /\ filter = "completed" /\ search = <<" ", "b", " ">>
    /\ Len(todos) = 2
    /\ Len(filtered(todos, filter, search)) = 1
    /\ filtered(todos, filter, search)[1].text = <<"a", " ", "B">>

(***************************************************************************)
(* C14. Round trip: a list that was persisted and is loaded again by a     *)
(* reload of the page is the same list: the same tasks with the same id,   *)
(* text, done and createdAt, in the same order.                            *)
(***************************************************************************)
C14_RoundTrip ==
    [][ (CallStep("reload") /\ lastWriteOk) =>
          /\ phase' = "mounted"
          /\ Len(todos') = Len(todos)
          /\ \A i \in DOMAIN todos :
               /\ todos'[i].id = todos[i].id
               /\ todos'[i].text = todos[i].text
               /\ todos'[i].done = todos[i].done
               /\ todos'[i].createdAt = todos[i].createdAt ]_vars

\* the page was reloaded on a list of two tasks, one done, one with an edited text
C14_Witness ==
    /\ phase = "mounted" /\ lastOp.op = "reload"
    /\ Len(todos) = 2
    /\ \E i, j \in DOMAIN todos :
         todos[i].done /\ ~todos[j].done /\ todos[j].text = <<"a", " ", "B">>

(***************************************************************************)
(* C15. In every list the page reaches, the ids are pairwise distinct.     *)
(***************************************************************************)
C15_UniqueIds ==
    phase = "mounted" =>
        \A i, j \in DOMAIN todos : i # j => todos[i].id # todos[j].id

\* two tasks were added to the list
C15_Witness ==
    /\ phase = "mounted"
    /\ Len(todos) = 2
    /\ nextId = 3
    /\ lastOp.op = "addTodo" /\ ~lastOp.noop

(***************************************************************************)
(* C16. In every list the page reaches, no task has a blank text: addTodo  *)
(* adds no such task, and saveEdit with a blank text deletes the task.     *)
(***************************************************************************)
C16_NoBlankText ==
    phase = "mounted" => \A i \in DOMAIN todos : ~Blank(todos[i].text)

\* a task was edited to white space and is gone, and the task left has a text
C16_Witness ==
    /\ Acted("saveEdit") /\ lastOp.text = <<>>
    /\ lastOp.id \notin IdsOf(todos)
    /\ Len(todos) = 1 /\ ~Blank(todos[1].text)
    /\ nextId = 3
    /\ text = <<" ">>

(***************************************************************************)
(* C13. A write that fails is swallowed: the step of the failure leaves    *)
(* the page running with the list that the handler left and ready for the  *)
(* next event, and changes only the bookkeeping of the write; the item     *)
(* stays as it was, and every later write that succeeds stores the full    *)
(* current list.                                                           *)
(***************************************************************************)
C13_FailStep ==
    (failures' # failures) =>
        /\ phase' = "mounted" /\ ~effectPending'
        /\ UNCHANGED <<todos, valueKind, queue, hookVars, pending, stored, nextId, now>>

C13_WriteStep ==
    (failures > 0 /\ effectPending /\ ~effectPending' /\ lastWriteOk') =>
        (stored' = Stringify(todos) /\ todos' = todos)

C13_WriteFailureSwallowed == [][C13_FailStep /\ C13_WriteStep]_vars

\* a write has failed: the page runs with two tasks, and the item still holds
\* the list of before
C13_Witness ==
    /\ phase = "mounted" /\ ~effectPending
    /\ failures = 1 /\ ~lastWriteOk
    /\ lastOp = NoCall
    /\ Len(todos) = 2
    /\ stored.kind = "array" /\ Len(stored.items) = 1

(***************************************************************************)
(* C19. Startup writes: the first run of the effect, which comes before    *)
(* any handler, stores the serialization of the list that was loaded; an   *)
(* item that was absent, empty or unreadable is replaced by the            *)
(* serialization of the empty list.                                        *)
(***************************************************************************)
C19_StartupWrites ==
    [][ (phase = "mounted" /\ ~lastWriteOk /\ failures = 0 /\ lastWriteOk') =>
          /\ lastOp = NoCall
          /\ todos = Load(stored).items
          /\ todos' = todos
          /\ stored' = Stringify(todos)
          /\ stored.kind \in {"absent", "empty", "garbage"} =>
                stored' = Item("array", <<>>) ]_vars

\* the page was opened on an unreadable item, and the first effect has replaced
\* it by the serialization of the empty list
C19_Witness ==
    /\ phase = "mounted" /\ lastWriteOk /\ ~effectPending
    /\ replaced = "garbage"
    /\ stored = Item("array", <<>>)
    /\ todos = <<>>

(***************************************************************************)
(* C17. Every request, whatever its path, is answered, and exactly once:   *)
(* by 200 with the HTML as body (the content of the file when readFile     *)
(* succeeded), or by 500 with the message of the error as plain text when  *)
(* readFile failed; never by both, and never left without an answer.       *)
(***************************************************************************)
C17_Answer(q) ==
    /\ q.heads <= 1 /\ q.ends <= 1
    /\ q.pc # "done" => (q.heads = 0 /\ q.ends = 0)
    /\ q.pc = "done" =>
         /\ q.heads = 1 /\ q.ends = 1
         /\ \/ server = "server1" /\ q.status = 200 /\ q.ctype = "text/html"
                /\ q.body = HelloBody
            \/ server = "server2" /\ q.read = "ok" /\ q.status = 200
                /\ q.ctype = "text/html" /\ q.body = <<FileData>>
            \/ server = "server2" /\ q.read = "failed" /\ q.status = 500
                /\ q.ctype = "text/plain" /\ q.body = <<ErrMessage>>

C17_OneResponse ==
    /\ [](\A r \in Requests : C17_Answer(reqs[r]))
    /\ \A r \in Requests : (reqs[r].pc # "none") ~> (reqs[r].ends = 1)

\* server2 has answered one request by 200 and another, of another path, by
\* 500, while a third waits for readFile
C17_Witness ==
    /\ server = "server2"
    /\ \E a, b, c \in Requests :
         /\ reqs[a].pc = "done" /\ reqs[a].status = 200
         /\ reqs[b].pc = "done" /\ reqs[b].status = 500 /\ reqs[b].path # reqs[a].path
         /\ reqs[c].pc = "reading"

(***************************************************************************)
(* C18. No mutation is lost when addTodo follows another handler before    *)
(* the page has rendered again: the render gives the list that the calls   *)
(* give when they run one at a time in the order of their dispatch, with   *)
(* the effect of the earlier call and the new task.                        *)
(* addTodo passes setTodos the array [newTodo, ...todos] built from the    *)
(* todos of the last render (line 78), not an updater: React replaces the  *)
(* state the earlier update produced, and the earlier mutation is lost.    *)
(***************************************************************************)
RECURSIVE C18_OneAtATime(_, _)
C18_OneAtATime(q, state) ==
    IF q = <<>> THEN state
    ELSE LET u == Head(q)
             next == IF u.op = "addTodo" THEN <<u.list[1]>> \o state
                     ELSE Apply(u, state)
         IN  C18_OneAtATime(Tail(q), next)

C18_NoLostMutation ==
    [][ ( /\ phase = "mounted"
          /\ queue # <<>> /\ queue' = <<>>
          /\ \E i, j \in DOMAIN queue :
               i < j /\ queue[i].op # "addTodo" /\ queue[j].op = "addTodo" ) =>
          todos' = C18_OneAtATime(queue, todos) ]_vars

(***************************************************************************)
(* C20. Edit session: no call of startEdit or cancelEdit changes the list  *)
(* or the item; startEdit(task) makes the task the one being edited, with  *)
(* its text in the buffer, whatever was edited or typed before; every call *)
(* of cancelEdit, and of saveEdit while a task is edited, leaves no task   *)
(* being edited and the buffer empty; saveEdit while no task is edited     *)
(* changes nothing; the buffer is empty whenever no task is edited.        *)
(***************************************************************************)
C20_ListKept == UNCHANGED <<todos, stored, effectPending, queue>>

C20_SessionOver == editingId' = NoId /\ editingText' = <<>>

C20_EditSession ==
    /\ editingId = NoId => editingText = <<>>
    /\ ~ENABLED (Handling /\ cancelEdit /\ ~(C20_ListKept /\ C20_SessionOver))
    /\ ~ENABLED (Handling /\ saveEdit /\ editingId # NoId /\ ~C20_SessionOver)
    /\ ~ENABLED (Handling /\ saveEdit /\ editingId = NoId
                   /\ ~(C20_ListKept /\ UNCHANGED hookVars))
    /\ \A i \in DOMAIN todos :
         ~ENABLED (Handling /\ startEdit(todos[i])
                     /\ ~( /\ C20_ListKept
                           /\ editingId' = todos[i].id
                           /\ editingText' = todos[i].text ))

\* of two tasks, one whose text an earlier edit saved is being edited again, and
\* the buffer holds text that is typed and not saved
C20_Witness ==
    /\ phase = "mounted" /\ ~effectPending
    /\ Len(todos) = 2
    /\ editingText = <<" ">>
    /\ \E i \in DOMAIN todos :
         todos[i].id = editingId /\ todos[i].text = <<"a", " ", "B">>

====
